---- MODULE Spec2Model ----
(***************************************************************************)
(* Model of service/jni/com_android_server_connectivity_ClatCoordinator.cpp *)
(* (the JNI bridge of the CLAT coordinator) together with the parts of the *)
(* native helper library libclat it calls.                                 *)
(*                                                                         *)
(* The helpers net::clat::selectIpv4Address, generateIpv6Address and        *)
(* detect_mtu are not part of that file; they follow the design document   *)
(* (sections 4.1 to 4.3).  inet_pton and inet_ntop follow the ISC          *)
(* implementations the C libraries share.  The address strings given to    *)
(* the calls are never null; interface names may be null or empty.         *)
(*                                                                         *)
(* Text is a sequence of one-character strings, an in_addr is the sequence *)
(* of its four octets in network byte order (its layout in memory), an     *)
(* in6_addr is the sequence of its eight 16-bit groups.                    *)
(***************************************************************************)
EXTENDS Integers, Sequences, FiniteSets, TLC

VARIABLES
    ifaddrs,    \* IPv4 addresses assigned to local interfaces (the live table)
    pending,    \* per CLAT instance: the address selected and not yet configured
    openFds,    \* descriptors of /dev/net/tun open in the process
    held,       \* handles returned by createTunInterface, not yet closed by the caller
    errno,      \* the calling thread's errno
    crashed,    \* the process was killed by a fault
    v6addrs,    \* IPv6 addresses assigned in the scope of the egress interface
    pc,         \* where the calling thread is: "idle", "generating", "probing"
    ctx,        \* the arguments and loop state of the call in progress
    last        \* the outcome of the call that returned in the last step

vars == <<ifaddrs, pending, openFds, held, errno, crashed, v6addrs, pc, ctx, last>>

----------------------------------------------------------------------------
(* jstring values and exceptions *)

NullStr == [null |-> TRUE, chars |-> <<>>]
JStr(chars) == [null |-> FALSE, chars |-> chars]

NoExc == [thrown |-> FALSE, msg |-> "", errno |-> "", code |-> 0]
IOException(msg) == [thrown |-> TRUE, msg |-> msg, errno |-> "", code |-> 0]

----------------------------------------------------------------------------
(* Decimal text *)

Digits == <<"0", "1", "2", "3", "4", "5", "6", "7", "8", "9">>
IsDigit(ch) == \E d \in 1..10 : Digits[d] = ch
DigitVal(ch) == (CHOOSE d \in 1..10 : Digits[d] = ch) - 1

RECURSIVE DecChars(_)
DecChars(n) == IF n < 10 THEN <<Digits[n + 1]>>
               ELSE DecChars(n \div 10) \o <<Digits[(n % 10) + 1]>>

----------------------------------------------------------------------------
(* IPv4 presentation format: inet_pton(AF_INET) and inet_ntop(AF_INET) *)

ParseFail == [ok |-> FALSE, addr |-> <<>>]
Parsed(a) == [ok |-> TRUE, addr |-> a]

\* The scan of inet_pton4: done are the octets closed by a '.', cur the octet
\* being read, saw_digit whether it has a digit yet.
RECURSIVE inet_pton4_scan(_, _, _, _)
inet_pton4_scan(src, done, cur, saw_digit) ==
    IF src = <<>>
    THEN IF Len(done) + (IF saw_digit THEN 1 ELSE 0) < 4
         THEN ParseFail
         ELSE Parsed(Append(done, cur))
    ELSE LET ch == Head(src) IN
         IF IsDigit(ch)
         THEN LET new == cur * 10 + DigitVal(ch) IN
              IF saw_digit /\ cur = 0 THEN ParseFail
              ELSE IF new > 255 THEN ParseFail
              ELSE IF ~saw_digit /\ Len(done) + 1 > 4 THEN ParseFail
              ELSE inet_pton4_scan(Tail(src), done, new, TRUE)
         ELSE IF ch = "." /\ saw_digit
         THEN IF Len(done) + 1 = 4 THEN ParseFail
              ELSE inet_pton4_scan(Tail(src), Append(done, cur), 0, FALSE)
         ELSE ParseFail

inet_pton4(src) == inet_pton4_scan(src, <<>>, 0, FALSE)

INET_ADDRSTRLEN == 16

Ntop4Chars(a) ==
    DecChars(a[1]) \o <<".">> \o DecChars(a[2]) \o <<".">> \o
    DecChars(a[3]) \o <<".">> \o DecChars(a[4])

\* inet_ntop fails (ENOSPC) when the text and its terminator do not fit.
inet_ntop4(a, size) ==
    IF Len(Ntop4Chars(a)) + 1 > size THEN NullStr ELSE JStr(Ntop4Chars(a))

INADDR_NONE == <<255, 255, 255, 255>>

----------------------------------------------------------------------------
(* IPv6 presentation format: inet_pton(AF_INET6) and inet_ntop(AF_INET6) *)

XDigitsL == <<"0", "1", "2", "3", "4", "5", "6", "7", "8", "9",
              "a", "b", "c", "d", "e", "f">>
XDigitsU == <<"0", "1", "2", "3", "4", "5", "6", "7", "8", "9",
              "A", "B", "C", "D", "E", "F">>
IsXDigit(ch) == \E d \in 1..16 : XDigitsL[d] = ch \/ XDigitsU[d] = ch
XDigitVal(ch) == (CHOOSE d \in 1..16 : XDigitsL[d] = ch \/ XDigitsU[d] = ch) - 1

RECURSIVE HexChars(_)
HexChars(n) == IF n < 16 THEN <<XDigitsL[n + 1]>>
               ELSE HexChars(n \div 16) \o <<XDigitsL[(n % 16) + 1]>>

Zeros(n) == [k \in 1..n |-> 0]

V4Groups(a) == <<a[1] * 256 + a[2], a[3] * 256 + a[4]>>
GroupsV4(hi, lo) == <<hi \div 256, hi % 256, lo \div 256, lo % 256>>

\* The end of inet_pton6: the last group is stored and the groups after "::"
\* are moved to the end of the address.
inet_pton6_end(tp0, colonp, val, seen) ==
    IF seen > 0 /\ Len(tp0) + 1 > 8 THEN ParseFail
    ELSE LET tp == IF seen > 0 THEN Append(tp0, val) ELSE tp0 IN
         IF colonp # -1
         THEN IF Len(tp) = 8 THEN ParseFail
              ELSE Parsed(SubSeq(tp, 1, colonp) \o Zeros(8 - Len(tp))
                          \o SubSeq(tp, colonp + 1, Len(tp)))
         ELSE IF Len(tp) # 8 THEN ParseFail
         ELSE Parsed(tp)

\* The scan of inet_pton6: curtok is the text after the last ':', tp the groups
\* stored, colonp the number of groups stored when "::" was met (-1: not met),
\* val the group being read and seen the number of its digits.
RECURSIVE inet_pton6_scan(_, _, _, _, _, _)
inet_pton6_scan(src, curtok, tp, colonp, val, seen) ==
    IF src = <<>> THEN inet_pton6_end(tp, colonp, val, seen)
    ELSE LET ch == Head(src)
             rest == Tail(src) IN
         IF IsXDigit(ch)
         THEN IF seen + 1 > 4 THEN ParseFail
              ELSE inet_pton6_scan(rest, curtok, tp, colonp,
                                   val * 16 + XDigitVal(ch), seen + 1)
         ELSE IF ch = ":"
         THEN IF seen = 0
              THEN IF colonp # -1 THEN ParseFail
                   ELSE inet_pton6_scan(rest, rest, tp, Len(tp), val, 0)
              ELSE IF rest = <<>> THEN ParseFail
              ELSE IF Len(tp) + 1 > 8 THEN ParseFail
              ELSE inet_pton6_scan(rest, rest, Append(tp, val), colonp, 0, 0)
         ELSE IF ch = "." /\ Len(tp) + 2 <= 8 /\ inet_pton4(curtok).ok
         THEN inet_pton6_end(tp \o V4Groups(inet_pton4(curtok).addr), colonp, 0, 0)
         ELSE ParseFail

inet_pton6(src) ==
    IF src # <<>> /\ Head(src) = ":"
    THEN IF Len(src) < 2 \/ src[2] # ":" THEN ParseFail
         ELSE inet_pton6_scan(Tail(src), Tail(src), <<>>, -1, 0, 0)
    ELSE inet_pton6_scan(src, src, <<>>, -1, 0, 0)

INET6_ADDRSTRLEN == 46

\* The number of zero groups of w from group i on.
RECURSIVE ZeroRun(_, _)
ZeroRun(w, i) == IF i > 8 \/ w[i] # 0 THEN 0 ELSE 1 + ZeroRun(w, i + 1)

\* The first longest run of at least two zero groups (base counts from 0;
\* -1: there is none).
BestRun(w) ==
    LET starts == { i \in 1..8 : w[i] = 0 /\ (i = 1 \/ w[i - 1] # 0) /\ ZeroRun(w, i) >= 2 }
    IN IF starts = {} THEN [base |-> -1, len |-> 0]
       ELSE LET b == CHOOSE i \in starts :
                        \A j \in starts : \/ ZeroRun(w, i) > ZeroRun(w, j)
                                          \/ ZeroRun(w, i) = ZeroRun(w, j) /\ i <= j
            IN [base |-> b - 1, len |-> ZeroRun(w, b)]

Encapsulated(w, best) ==
    /\ best.base = 0
    /\ \/ best.len = 6
       \/ best.len = 7 /\ w[8] # 1
       \/ best.len = 5 /\ w[6] = 65535

RECURSIVE Ntop6Groups(_, _, _)
Ntop6Groups(w, best, i) ==
    IF i = 8 THEN <<>>
    ELSE IF best.base # -1 /\ i >= best.base /\ i < best.base + best.len
    THEN (IF i = best.base THEN <<":">> ELSE <<>>) \o Ntop6Groups(w, best, i + 1)
    ELSE (IF i # 0 THEN <<":">> ELSE <<>>) \o
         (IF i = 6 /\ Encapsulated(w, best)
          THEN Ntop4Chars(GroupsV4(w[7], w[8]))
          ELSE HexChars(w[i + 1]) \o Ntop6Groups(w, best, i + 1))

Ntop6Chars(w) ==
    LET best == BestRun(w) IN
    Ntop6Groups(w, best, 0) \o
    (IF best.base # -1 /\ best.base + best.len = 8 THEN <<":">> ELSE <<>>)

inet_ntop6(w, size) ==
    IF Len(Ntop6Chars(w)) + 1 > size THEN NullStr ELSE JStr(Ntop6Chars(w))

----------------------------------------------------------------------------
(* IPv4 subnets.  The host part is at most the low 16 bits here. *)

RECURSIVE Pow2(_)
Pow2(n) == IF n = 0 THEN 1 ELSE 2 * Pow2(n - 1)

Lo16(a) == a[3] * 256 + a[4]
WithLo16(a, lo) == <<a[1], a[2], lo \div 256, lo % 256>>

SubnetSize(prefixlen) == Pow2(32 - prefixlen)
NetworkAddr(ip, prefixlen) ==
    WithLo16(ip, Lo16(ip) - (Lo16(ip) % SubnetSize(prefixlen)))
BroadcastAddr(ip, prefixlen) ==
    WithLo16(ip, Lo16(NetworkAddr(ip, prefixlen)) + SubnetSize(prefixlen) - 1)
InSubnet(a, ip, prefixlen) ==
    NetworkAddr(a, prefixlen) = NetworkAddr(ip, prefixlen)

\* The candidate host addresses of ip/prefixlen: neither network nor broadcast.
HostAddrs(ip, prefixlen) ==
    { WithLo16(ip, Lo16(NetworkAddr(ip, prefixlen)) + k) :
        k \in 1 .. (SubnetSize(prefixlen) - 2) }

FreeHosts(ip, prefixlen, table) == HostAddrs(ip, prefixlen) \ table

\* net::clat::selectIpv4Address: the first candidate host address, in
\* ascending order, that no local interface holds; INADDR_NONE when none is.
clat_selectIpv4Address(ip, prefixlen, table) ==
    LET free == FreeHosts(ip, prefixlen, table) IN
    IF free = {} THEN INADDR_NONE
    ELSE CHOOSE a \in free : \A b \in free : Lo16(a) <= Lo16(b)

----------------------------------------------------------------------------
(* The outcome of a call *)

\* op: the operation; sret/iret: the string or integer returned; exc: the
\* exception pending at return; trace: the calls made, in order; fd: the
\* descriptor the call opened (0: none); cause: the errno the failing system
\* call set; helper: what the native helper returned; attempts: the number of
\* attempts the helper made.
Idle == [op |-> "none", inst |-> 0, args |-> <<>>, sret |-> NullStr, iret |-> 0,
         exc |-> NoExc, trace |-> <<>>, fd |-> 0, cause |-> "", helper |-> 0,
         attempts |-> 0]

Outcome(op, sret, iret, exc, trace) ==
    [op |-> op, inst |-> 0, args |-> <<>>, sret |-> sret, iret |-> iret,
     exc |-> exc, trace |-> trace, fd |-> 0, cause |-> "", helper |-> 0,
     attempts |-> 0]

----------------------------------------------------------------------------
(* selectIpv4Address *)

selectIpv4Address_slip(address, prefixlen, table) ==
    LET ip == inet_pton4(address) IN
    IF ~ip.ok
    THEN Outcome("selectIpv4Address", NullStr, 0, NoExc, <<"inet_pton">>)
    ELSE LET v4 == clat_selectIpv4Address(ip.addr, prefixlen, table) IN
         IF v4 = INADDR_NONE
         THEN Outcome("selectIpv4Address", NullStr, 0,
                      IOException("No free IPv4 address"), <<"inet_pton", "helper">>)
         ELSE Outcome("selectIpv4Address", inet_ntop4(ip.addr, INET_ADDRSTRLEN), 0,
                      NoExc, <<"inet_pton", "helper", "inet_ntop">>)

selectIpv4Address_unchecked(address, prefixlen, table) ==
    LET ip == inet_pton4(address) IN
    IF ~ip.ok
    THEN Outcome("selectIpv4Address", NullStr, 0, NoExc, <<"inet_pton">>)
    ELSE LET v4 == clat_selectIpv4Address(ip.addr, prefixlen, table) IN
         Outcome("selectIpv4Address", inet_ntop4(v4, INET_ADDRSTRLEN), 0,
                 NoExc, <<"inet_pton", "helper", "inet_ntop">>)

\* Lines 30-57, on the interface-address table as it is at the call.
selectIpv4Address(address, prefixlen, table) ==
    LET ip == inet_pton4(address) IN
    IF ~ip.ok
    THEN Outcome("selectIpv4Address", NullStr, 0, NoExc, <<"inet_pton">>)
    ELSE LET v4 == clat_selectIpv4Address(ip.addr, prefixlen, table) IN
         IF v4 = INADDR_NONE
         THEN Outcome("selectIpv4Address", NullStr, 0,
                      IOException("No free IPv4 address"), <<"inet_pton", "helper">>)
         ELSE Outcome("selectIpv4Address", inet_ntop4(v4, INET_ADDRSTRLEN), 0,
                      NoExc, <<"inet_pton", "helper", "inet_ntop">>)

----------------------------------------------------------------------------
(* createTunInterface *)

MaxFds == 2

\* The descriptors open("/dev/net/tun") can return: the lowest one not in use.
FdRange == 3 .. (2 + MaxFds)
LowestFree(fds) == CHOOSE fd \in FdRange \ fds : \A g \in FdRange \ fds : fd <= g

NullPointerException == [thrown |-> TRUE, msg |-> "NullPointerException",
                         errno |-> "", code |-> 0]
OpenFailed(e) == [thrown |-> TRUE, msg |-> "open tun device failed",
                  errno |-> e, code |-> 0]
TunSetIffFailed(e) == [thrown |-> TRUE, msg |-> "ioctl(TUNSETIFF) failed",
                       errno |-> e, code |-> 0]

\* close(fd) on the binding-failure path releases the descriptor.
AfterClose_leak(fds, fd) == fds \cup {fd}

AfterClose(fds, fd) == fds \ {fd}

\* close may leave errno alone or set it.
ErrnoAfterClose(e, closeErr) == IF closeErr = "0" THEN e ELSE closeErr

\* createTunInterface(name) with the descriptors fds open and errno e0.
\*   openErr:  "0" when open succeeds, else the errno it sets
\*   ioctlErr: "0" when ioctl(TUNSETIFF) succeeds, else the errno it sets
\*   closeErr: "0" when close leaves errno alone, else the errno it sets
\*   fault:    whether strlcpy from a null name kills the process
\* Gives the outcome and the descriptors, errno and liveness of the process.
createTunInterface(name, fds, e0, openErr, ioctlErr, closeErr, fault) ==
    LET pendingExc == IF name.null THEN NullPointerException ELSE NoExc
        fd == LowestFree(fds)
        base == Outcome("createTunInterface", NullStr, 0, pendingExc, <<>>)
    IN
    IF openErr # "0"
    THEN [out |-> [base EXCEPT !.iret = -1, !.exc = OpenFailed(openErr),
                               !.cause = openErr,
                               !.trace = <<"ScopedUtfChars", "open", "throw">>],
          fds |-> fds, errno |-> openErr, crashed |-> FALSE]
    ELSE IF name.null /\ fault
    THEN [out |-> [base EXCEPT !.fd = fd,
                               !.trace = <<"ScopedUtfChars", "open", "strlcpy">>],
          fds |-> {}, errno |-> e0, crashed |-> TRUE]
    ELSE IF ioctlErr # "0"
    THEN [out |-> [base EXCEPT !.iret = -1, !.fd = fd, !.cause = ioctlErr,
                               !.exc = TunSetIffFailed(ErrnoAfterClose(ioctlErr, closeErr)),
                               !.trace = <<"ScopedUtfChars", "open", "strlcpy", "ioctl",
                                           "close", "throw">>],
          fds |-> AfterClose(fds \cup {fd}, fd),
          errno |-> ErrnoAfterClose(ioctlErr, closeErr), crashed |-> FALSE]
    ELSE [out |-> [base EXCEPT !.iret = fd, !.fd = fd,
                               !.trace = <<"ScopedUtfChars", "open", "strlcpy", "ioctl">>],
          fds |-> fds \cup {fd}, errno |-> e0, crashed |-> FALSE]

----------------------------------------------------------------------------
(* generateIpv6Address *)

\* The 16-bit ones-complement sum and checksum of a sequence of 16-bit groups.
RECURSIVE Sum16(_)
Sum16(w) == IF w = <<>> THEN 0 ELSE Head(w) + Sum16(Tail(w))

RECURSIVE ip_checksum_fold(_)
ip_checksum_fold(sum) ==
    IF sum > 65535 THEN ip_checksum_fold((sum % 65536) + (sum \div 65536)) ELSE sum

ip_checksum(w) == 65535 - ip_checksum_fold(Sum16(w))

MaxAttempts == 2

\* The identifier of attempt n: its high group comes from the seed, perturbed
\* by the attempt; its low group is adjusted so that the identifier sums, in
\* ones-complement arithmetic, to what the IPv4 address sums to.
IdentifierHigh(seed, n) == (seed + n) % 65536
IdentifierLow(v4, hi) ==
    LET target == ip_checksum_fold(Sum16(V4Groups(v4))) IN
    IF target >= hi THEN target - hi ELSE target + 65535 - hi

Candidate(nat64Prefix, v4, seed, n) ==
    SubSeq(nat64Prefix, 1, 6) \o
    <<IdentifierHigh(seed, n), IdentifierLow(v4, IdentifierHigh(seed, n))>>

ChecksumNeutral(v6, v4) == ip_checksum(SubSeq(v6, 7, 8)) = ip_checksum(V4Groups(v4))

\* A candidate passes when it is checksum neutral and not in use in the scope
\* of the interface.
CandidatePasses(v6, v4, inUse) == ChecksumNeutral(v6, v4) /\ v6 \notin inUse

\* Lines 62-82: the arguments are checked and parsed.
generateIpv6Address_args(iface, v4Str, prefix64Str) ==
    LET v4 == inet_pton4(v4Str)
        nat64Prefix == inet_pton6(prefix64Str)
        fail(msg, trace) ==
            [ok |-> FALSE, v4 |-> <<>>, nat64Prefix |-> <<>>,
             out |-> Outcome("generateIpv6Address", NullStr, 0, IOException(msg), trace)]
    IN
    IF iface.null
    THEN fail("Invalid null interface name", <<"throw">>)
    ELSE IF ~v4.ok
    THEN fail("Invalid clat v4 address", <<"inet_pton", "throw">>)
    ELSE IF ~nat64Prefix.ok
    THEN fail("Invalid prefix", <<"inet_pton", "inet_pton", "throw">>)
    ELSE [ok |-> TRUE, v4 |-> v4.addr, nat64Prefix |-> nat64Prefix.addr, out |-> Idle]

generateIpv6Address_result_unchecked(rc, v6) ==
    Outcome("generateIpv6Address", inet_ntop6(v6, INET6_ADDRSTRLEN), 0, NoExc,
            <<"inet_pton", "inet_pton", "helper", "inet_ntop">>)

\* Lines 84-96: the helper returned rc and left its last candidate in v6.
generateIpv6Address_result(rc, v6) ==
    IF rc # 0
    THEN Outcome("generateIpv6Address", NullStr, 0,
                 IOException("Unable to find global source address"),
                 <<"inet_pton", "inet_pton", "helper", "throw">>)
    ELSE Outcome("generateIpv6Address", inet_ntop6(v6, INET6_ADDRSTRLEN), 0, NoExc,
                 <<"inet_pton", "inet_pton", "helper", "inet_ntop">>)

----------------------------------------------------------------------------
(* detectMtu *)

MaxRetries == 2

DetectMtuFailed(code) == [thrown |-> TRUE, msg |-> "detect mtu failed",
                          errno |-> "", code |-> code]

\* Lines 130-137: the PLAT subnet is parsed.
detectMtu_args(platSubnet) ==
    LET plat_subnet == inet_pton6(platSubnet) IN
    IF ~plat_subnet.ok
    THEN [ok |-> FALSE, plat_subnet |-> <<>>,
          out |-> Outcome("detectMtu", NullStr, -1,
                          IOException("Invalid plat prefix address"),
                          <<"inet_pton", "throw">>)]
    ELSE [ok |-> TRUE, plat_subnet |-> plat_subnet.addr, out |-> Idle]

detectMtu_result_unchecked(ret) ==
    [Outcome("detectMtu", NullStr, ret, NoExc, <<"inet_pton", "helper">>)
        EXCEPT !.helper = ret]

\* Lines 139-145: the prober returned ret.
detectMtu_result(ret) ==
    IF ret < 0
    THEN [Outcome("detectMtu", NullStr, -1, DetectMtuFailed(-ret),
                  <<"inet_pton", "helper", "throw">>) EXCEPT !.helper = ret]
    ELSE [Outcome("detectMtu", NullStr, ret, NoExc, <<"inet_pton", "helper">>)
             EXCEPT !.helper = ret]

----------------------------------------------------------------------------
(* Inputs of the calls *)

Chars_192_0_0_4   == <<"1", "9", "2", ".", "0", ".", "0", ".", "4">>
Chars_192_0_0_1   == <<"1", "9", "2", ".", "0", ".", "0", ".", "1">>
Chars_0_0_0_0     == <<"0", ".", "0", ".", "0", ".", "0">>
Chars_192_0_0     == <<"1", "9", "2", ".", "0", ".", "0">>
Chars_192_0_0_256 == <<"1", "9", "2", ".", "0", ".", "0", ".", "2", "5", "6">>

SelectTexts == {Chars_192_0_0_4, Chars_192_0_0_1, Chars_192_0_0, Chars_192_0_0_256}
PrefixLens == {29, 30, 31, 32}

\* The addresses interfaces outside CLAT may gain and lose.
AddrPool == {<<192, 0, 0, 1>>, <<192, 0, 0, 5>>, <<192, 0, 0, 6>>}

Inst == {1, 2}

----------------------------------------------------------------------------
(* The AddressPool selector and the interface-address table *)

SelectIpv4Address_reserving(i, address, prefixlen) ==
    LET r == selectIpv4Address(address, prefixlen, ifaddrs) IN
    /\ ~crashed
    /\ pc = "idle"
    /\ last' = [r EXCEPT !.inst = i,
                         !.args = [address |-> address, prefixlen |-> prefixlen]]
    /\ pending' = [pending EXCEPT ![i] = r.sret]
    /\ ifaddrs' = IF r.sret.null THEN ifaddrs
                  ELSE ifaddrs \cup {inet_pton4(r.sret.chars).addr}
    /\ UNCHANGED <<openFds, held, errno, crashed, v6addrs, pc, ctx>>

\* One call of selectIpv4Address by CLAT instance i: the table is read, never
\* written; the caller keeps the result until it configures its interface.
SelectIpv4Address(i, address, prefixlen) ==
    LET r == selectIpv4Address(address, prefixlen, ifaddrs) IN
    /\ ~crashed
    /\ pc = "idle"
    /\ last' = [r EXCEPT !.inst = i,
                         !.args = [address |-> address, prefixlen |-> prefixlen]]
    /\ pending' = [pending EXCEPT ![i] = r.sret]
    /\ UNCHANGED <<ifaddrs, openFds, held, errno, crashed, v6addrs, pc, ctx>>

\* clatd of instance i starts up and assigns the selected address to its
\* interface.
ConfigureInterface(i) ==
    /\ ~crashed
    /\ ~pending[i].null
    /\ ifaddrs' = ifaddrs \cup {inet_pton4(pending[i].chars).addr}
    /\ pending' = [pending EXCEPT ![i] = NullStr]
    /\ last' = Idle
    /\ UNCHANGED <<openFds, held, errno, crashed, v6addrs, pc, ctx>>

\* Another interface of the host gains or loses an address.
IfAddrAdded(a) ==
    /\ a \notin ifaddrs
    /\ ifaddrs' = ifaddrs \cup {a}
    /\ last' = Idle
    /\ UNCHANGED <<pending, openFds, held, errno, crashed, v6addrs, pc, ctx>>

IfAddrRemoved(a) ==
    /\ a \in ifaddrs
    /\ ifaddrs' = ifaddrs \ {a}
    /\ last' = Idle
    /\ UNCHANGED <<pending, openFds, held, errno, crashed, v6addrs, pc, ctx>>

----------------------------------------------------------------------------
(* The tunnel device acquirer and the process's descriptors *)

Chars_v4_wlan0 == <<"v", "4", "-", "w", "l", "a", "n", "0">>
TunNames == {NullStr, JStr(<<>>), JStr(Chars_v4_wlan0)}
OpenErrnos == {"0", "EMFILE", "EACCES"}
IoctlErrnos == {"0", "EBUSY", "EINVAL"}
CloseErrnos == {"0", "EINTR"}

CreateTunInterface(name, openErr, ioctlErr, closeErr, fault) ==
    /\ ~crashed
    /\ pc = "idle"
    \* open cannot succeed once the descriptor table is full
    /\ (FdRange \ openFds = {}) => openErr = "EMFILE"
    /\ LET r == createTunInterface(name, openFds, errno, openErr, ioctlErr,
                                   closeErr, fault) IN
       /\ last' = [r.out EXCEPT !.args = [name |-> name]]
       /\ openFds' = r.fds
       /\ errno' = r.errno
       /\ crashed' = r.crashed
       /\ held' = IF r.crashed THEN {}
                  ELSE IF r.out.iret # -1 THEN held \cup {r.out.iret}
                  ELSE held
    /\ UNCHANGED <<ifaddrs, pending, v6addrs, pc, ctx>>

\* The caller closes a handle it owns.
CallerClose(fd) ==
    /\ ~crashed
    /\ fd \in held
    /\ held' = held \ {fd}
    /\ openFds' = openFds \ {fd}
    /\ last' = Idle
    /\ UNCHANGED <<ifaddrs, pending, errno, crashed, v6addrs, pc, ctx>>

NextTun ==
    \/ \E name \in TunNames, openErr \in OpenErrnos, ioctlErr \in IoctlErrnos,
          closeErr \in CloseErrnos, fault \in BOOLEAN :
           CreateTunInterface(name, openErr, ioctlErr, closeErr, fault)
    \/ \E fd \in FdRange : CallerClose(fd)

----------------------------------------------------------------------------
(* The IID generator, the MTU prober and the calling thread *)

Chars_64_ff9b     == <<"6", "4", ":", "f", "f", "9", "b", ":", ":">>
Chars_2001_db8_1  == <<"2", "0", "0", "1", ":", "d", "b", "8", ":", ":", "1">>
Chars_64_ff9b_96  == <<"6", "4", ":", "f", "f", "9", "b", ":", ":", "/", "9", "6">>

Ifaces == {NullStr, JStr(<<>>), JStr(Chars_v4_wlan0)}
GenV4Texts == {Chars_192_0_0_4, Chars_0_0_0_0, Chars_192_0_0_256}
Prefix64Texts == {Chars_64_ff9b, Chars_2001_db8_1, Chars_64_ff9b_96}
Seeds == {4660, 65535}

\* The addresses other hosts of the interface's scope may gain and lose: the
\* candidates of 64:ff9b::/96 and 192.0.0.4 from seed 4660 on.
V6Pool == { Candidate(<<100, 65435, 0, 0, 0, 0, 0, 0>>, <<192, 0, 0, 4>>, 4660, n) :
              n \in 0 .. (MaxAttempts - 1) }

\* generateIpv6Address is called: it returns at once when an argument is
\* rejected, and enters the helper otherwise.
GenerateIpv6AddressCall(iface, v4Str, prefix64Str, seed) ==
    LET a == generateIpv6Address_args(iface, v4Str, prefix64Str)
        args == [iface |-> iface, v4 |-> v4Str, prefix64 |-> prefix64Str, seed |-> seed]
    IN
    /\ ~crashed
    /\ pc = "idle"
    /\ IF a.ok
       THEN /\ pc' = "generating"
            /\ ctx' = [args |-> args, v4 |-> a.v4, nat64Prefix |-> a.nat64Prefix,
                       seed |-> seed, attempt |-> 0,
                       v6 |-> Candidate(a.nat64Prefix, a.v4, seed, 0)]
            /\ last' = Idle
       ELSE /\ last' = [a.out EXCEPT !.args = args]
            /\ UNCHANGED <<pc, ctx>>
    /\ UNCHANGED <<ifaddrs, pending, openFds, held, errno, crashed, v6addrs>>

NextAttempt(n) == n + 1

\* One attempt of net::clat::generateIpv6Address on the candidate ctx.v6; the
\* call returns when a candidate passes or the attempts are used up.
GenerateAttempt ==
    /\ pc = "generating"
    /\ LET found == CandidatePasses(ctx.v6, ctx.v4, v6addrs)
           n == NextAttempt(ctx.attempt)
       IN
       IF found \/ n >= MaxAttempts
       THEN /\ last' = [generateIpv6Address_result(IF found THEN 0 ELSE 1, ctx.v6)
                           EXCEPT !.args = ctx.args,
                                  !.helper = IF found THEN 0 ELSE 1,
                                  !.attempts = n]
            /\ pc' = "idle"
            /\ ctx' = <<>>
       ELSE /\ ctx' = [ctx EXCEPT !.attempt = n,
                                  !.v6 = Candidate(ctx.nat64Prefix, ctx.v4, ctx.seed, n)]
            /\ last' = Idle
            /\ UNCHANGED pc
    /\ UNCHANGED <<ifaddrs, pending, openFds, held, errno, crashed, v6addrs>>

V6AddrAdded(a) ==
    /\ a \notin v6addrs
    /\ v6addrs' = v6addrs \cup {a}
    /\ last' = Idle
    /\ UNCHANGED <<ifaddrs, pending, openFds, held, errno, crashed, pc, ctx>>

V6AddrRemoved(a) ==
    /\ a \in v6addrs
    /\ v6addrs' = v6addrs \ {a}
    /\ last' = Idle
    /\ UNCHANGED <<ifaddrs, pending, openFds, held, errno, crashed, pc, ctx>>

PlatTexts == {Chars_64_ff9b, Chars_64_ff9b_96}
PlatSuffixes == {0, 1}
Marks == {0}
LinkMtus == {1500}

\* What one probe attempt gives: the negated errno of a lost or failed probe,
\* or the MTU the path reports.
ProbeOutcomes == {-110, -101, 0, 576, 1280, 1500}

DetectMtuCall(platSubnet, plat_suffix, mark, linkMtu) ==
    LET a == detectMtu_args(platSubnet)
        args == [platSubnet |-> platSubnet, plat_suffix |-> plat_suffix,
                 mark |-> mark, linkMtu |-> linkMtu]
    IN
    /\ ~crashed
    /\ pc = "idle"
    /\ IF a.ok
       THEN /\ pc' = "probing"
            /\ ctx' = [args |-> args, plat_subnet |-> a.plat_subnet, attempt |-> 0]
            /\ last' = Idle
       ELSE /\ last' = [a.out EXCEPT !.args = args]
            /\ UNCHANGED <<pc, ctx>>
    /\ UNCHANGED <<ifaddrs, pending, openFds, held, errno, crashed, v6addrs>>

\* One probe of net::clat::detect_mtu; the call returns when a probe is
\* answered or the retries are used up.
ProbeAttempt(outcome) ==
    /\ pc = "probing"
    /\ LET n == NextAttempt(ctx.attempt) IN
       IF outcome >= 0 \/ n >= MaxRetries
       THEN /\ last' = [detectMtu_result(outcome)
                           EXCEPT !.args = ctx.args, !.attempts = n]
            /\ pc' = "idle"
            /\ ctx' = <<>>
       ELSE /\ ctx' = [ctx EXCEPT !.attempt = n]
            /\ last' = Idle
            /\ UNCHANGED pc
    /\ UNCHANGED <<ifaddrs, pending, openFds, held, errno, crashed, v6addrs>>

NextCalls ==
    \/ \E iface \in Ifaces, v4Str \in GenV4Texts, prefix64Str \in Prefix64Texts,
          seed \in Seeds :
           GenerateIpv6AddressCall(iface, v4Str, prefix64Str, seed)
    \/ GenerateAttempt
    \/ \E a \in V6Pool : V6AddrAdded(a)
    \/ \E a \in V6Pool : V6AddrRemoved(a)
    \/ \E platSubnet \in PlatTexts, plat_suffix \in PlatSuffixes, mark \in Marks,
          linkMtu \in LinkMtus :
           DetectMtuCall(platSubnet, plat_suffix, mark, linkMtu)
    \/ \E outcome \in ProbeOutcomes : ProbeAttempt(outcome)

----------------------------------------------------------------------------

Init ==
    /\ ifaddrs = {}
    /\ pending = [i \in Inst |-> NullStr]
    /\ openFds = {}
    /\ held = {}
    /\ errno = "0"
    /\ crashed = FALSE
    /\ v6addrs = {}
    /\ pc = "idle"
    /\ ctx = <<>>
    /\ last = Idle

NextSelector ==
    \/ \E i \in Inst, address \in SelectTexts, prefixlen \in PrefixLens :
           SelectIpv4Address(i, address, prefixlen)
    \/ \E i \in Inst : ConfigureInterface(i)
    \/ \E a \in AddrPool : IfAddrAdded(a)
    \/ \E a \in AddrPool : IfAddrRemoved(a)

SpecSelector == Init /\ [][NextSelector]_vars

SpecTun == Init /\ [][NextTun]_vars

SpecCalls == Init /\ [][NextCalls]_vars

\* The calling thread keeps running: a loop that can take a step takes it.
FairCalls ==
    SpecCalls /\ WF_vars(GenerateAttempt) /\ WF_vars(\E outcome \in ProbeOutcomes : ProbeAttempt(outcome))

----------------------------------------------------------------------------
(* Properties *)

StringOps == {"selectIpv4Address", "generateIpv6Address"}

\* The call returned to its caller.
Returned == last.op # "none" /\ ~crashed

\* The call returned its failure sentinel: a null string or -1.
Failed == IF last.op \in StringOps THEN last.sret.null ELSE last.iret = -1

\* An argument of the call is malformed, null or empty.
InvalidInput ==
    \/ /\ last.op = "selectIpv4Address"
       /\ ~inet_pton4(last.args.address).ok
    \/ /\ last.op = "generateIpv6Address"
       /\ \/ last.args.iface.null
          \/ last.args.iface.chars = <<>>
          \/ ~inet_pton4(last.args.v4).ok
          \/ ~inet_pton6(last.args.prefix64).ok
    \/ /\ last.op = "createTunInterface"
       /\ last.args.name.null \/ last.args.name.chars = <<>>
    \/ /\ last.op = "detectMtu"
       /\ ~inet_pton6(last.args.platSubnet).ok

ResourceUses == {"helper", "open", "socket"}
UsedResource == \E k \in 1..Len(last.trace) : last.trace[k] \in ResourceUses

Before(trace, x, y) ==
    \E i, j \in 1..Len(trace) : i < j /\ trace[i] = x /\ trace[j] = y

\* C1: createTunInterface leaks no descriptor: the open tun descriptors are
\* exactly the handles returned and not yet closed by the caller; a call that
\* fails at the binding step has closed its descriptor before it reports the
\* failure, and a successful call returns a descriptor that is open.
C1_NoDescriptorLeak ==
    /\ openFds = held
    /\ (last.op = "createTunInterface" /\ Returned) =>
          /\ last.iret # -1 => last.iret = last.fd /\ last.fd \in openFds
          /\ (last.iret = -1 /\ last.fd # 0) =>
                /\ last.fd \notin openFds
                /\ Before(last.trace, "close", "throw")

\* C1 witness: a call failed at the binding step while the caller held
\* another handle.
C1_BindFailureWhileHolding ==
    /\ last.op = "createTunInterface"
    /\ last.iret = -1
    /\ last.fd # 0
    /\ held # {}

\* C2: no error is swallowed: a call returns its failure sentinel exactly
\* when it has raised an exception.
C2_NoErrorSwallowed == Returned => (Failed <=> last.exc.thrown)

\* C3: an invalid input makes the call fail before any resource is used: the
\* helper is not called, the tun device is not opened, no socket is created.
C3_ValidationBeforeResources ==
    (last.op # "none" /\ InvalidInput) => (Returned /\ Failed /\ ~UsedResource)

\* C4: a failure of an external resource carries the error of the call that
\* failed: open's errno, the errno of ioctl(TUNSETIFF) whatever close does to
\* errno, and the negated return of the prober.
C4_CarriesOsError ==
    /\ (last.op = "createTunInterface" /\ Returned /\ last.iret = -1) =>
          last.exc.errno = last.cause
    /\ (last.op = "detectMtu" /\ last.helper < 0) => last.exc.code = -last.helper

\* C5: with a valid base address and prefix length and a free host address
\* in the subnet, selectIpv4Address returns an address of the subnet that is
\* neither its network nor its broadcast address and that no local interface
\* holds in the table read by the call.
C5_SelectedAddressIsFreeHost ==
    (/\ last.op = "selectIpv4Address"
     /\ inet_pton4(last.args.address).ok
     /\ \E a \in HostAddrs(inet_pton4(last.args.address).addr, last.args.prefixlen) :
            a \notin ifaddrs)
    => LET ip == inet_pton4(last.args.address).addr
           len == last.args.prefixlen
           got == inet_pton4(last.sret.chars)
       IN /\ ~last.sret.null
          /\ got.ok
          /\ InSubnet(got.addr, ip, len)
          /\ got.addr # NetworkAddr(ip, len)
          /\ got.addr # BroadcastAddr(ip, len)
          /\ got.addr \notin ifaddrs

\* C5 witness: a call returned an address other than the lowest host of the
\* subnet, because interfaces hold the ones below it.
C5_SkippedAssignedHosts ==
    /\ last.op = "selectIpv4Address"
    /\ ~last.sret.null
    /\ \E a \in ifaddrs :
          /\ InSubnet(a, inet_pton4(last.args.address).addr, last.args.prefixlen)
          /\ Lo16(a) < Lo16(inet_pton4(last.sret.chars).addr)

\* C6: with a valid base address and prefix length and no free host address
\* in the subnet, selectIpv4Address reports "No free IPv4 address" and
\* returns no address, whatever else the state is.
C6_ExhaustedSubnetIsNotFound ==
    (/\ last.op = "selectIpv4Address"
     /\ inet_pton4(last.args.address).ok
     /\ HostAddrs(inet_pton4(last.args.address).addr, last.args.prefixlen) \subseteq ifaddrs)
    => /\ last.sret.null
       /\ last.exc.thrown
       /\ last.exc.msg = "No free IPv4 address"

\* C6 witness: not-found in a subnet that has host addresses, all of them
\* held by interfaces.
C6_AllHostsAssigned ==
    /\ last.op = "selectIpv4Address"
    /\ last.exc.thrown
    /\ HostAddrs(inet_pton4(last.args.address).addr, last.args.prefixlen) # {}
    /\ HostAddrs(inet_pton4(last.args.address).addr, last.args.prefixlen) \subseteq ifaddrs

C8_MtuWithinBounds ==
    /\ (last.op = "detectMtu" /\ ~last.exc.thrown) =>
          (1280 <= last.iret /\ last.iret <= last.args.linkMtu)
    /\ (last.op = "detectMtu" /\ last.helper < 0) =>
          (last.iret = -1 /\ last.exc.thrown)

\* C9: selection is advisory: a call of selectIpv4Address leaves the
\* interface-address table as it found it, so nothing keeps a second call
\* from returning the address of a first one (the witness).
C9_SelectionReservesNothing ==
    [][last'.op = "selectIpv4Address" => ifaddrs' = ifaddrs]_vars

\* C9 witness: both CLAT instances hold the same selected address and neither
\* has configured an interface with it.
C9_SameAddressSelectedTwice ==
    /\ ~pending[1].null
    /\ pending[1] = pending[2]
    /\ inet_pton4(pending[1].chars).addr \notin ifaddrs

\* C10: every call returns; the helpers stay within their budget of attempts;
\* generateIpv6Address ends with NoSourceAddress when its attempts are used
\* up, and detectMtu ends with ProbeFailed, not with an MTU, when its probes
\* are.
C10_BoundedOutcome ==
    /\ pc = "generating" => ctx.attempt < MaxAttempts
    /\ pc = "probing" => ctx.attempt < MaxRetries
    /\ last.op = "generateIpv6Address" =>
          /\ last.attempts <= MaxAttempts
          /\ last.helper # 0 =>
                /\ last.attempts = MaxAttempts
                /\ last.sret.null
                /\ last.exc.msg = "Unable to find global source address"
    /\ last.op = "detectMtu" =>
          /\ last.attempts <= MaxRetries
          /\ last.helper < 0 =>
                /\ last.attempts = MaxRetries
                /\ last.iret = -1
                /\ last.exc.msg = "detect mtu failed"

====
